---- MODULE Spec2Model ----
(***************************************************************************)
(* Hand-gesture engine of the memory tree (src/src/stores/useAppStore.ts,  *)
(* useHandTracking): the per-frame classifier hands.onResults, the         *)
(* enable/disable effect, cleanup and initializeHandTracking; and the      *)
(* memory list kept by useTreeMemories (src/src/hooks/useTreeMemories.ts)  *)
(* in localStorage, in the hook's state and in the store; and the gesture  *)
(* handlers of MemoryTreeUI (src/src/App.tsx).                             *)
(*                                                                         *)
(* Fixed-point units.  Landmark coordinates and distances are integers in  *)
(* 1/1000 of the normalized camera frame (0.06 is 60).  Hand spread and    *)
(* spread delta are integers in 1/5000 (the mean of five fingertip         *)
(* distances is then exact; 0.01 is 50).  Time is in milliseconds.         *)
(***************************************************************************)
EXTENDS Integers, Sequences, FiniteSets, TLC

VARIABLES
    \* ---- React props / state of useHandTracking
    enabled,                    \* options.enabled of the current render
    isLoading, error,           \* useState
    gesture,                    \* useState<HandGesture>: the published snapshot
    \* ---- refs of the acquisition pipeline (0 is null, else the id of the
    \*      initializeHandTracking call that created the object)
    videoRef, canvasRef, handsRef, cameraRef,
    isInitializedRef, isInitializingRef,
    calls,                      \* initializeHandTracking invocations
    mediaPipeCache,             \* module-level cache: Hands and Camera are in it
    cameras,                    \* Camera objects that are started and not stopped
    \* ---- refs of the classifier
    gestureRef,
    lastHandPosRef, handVisibleLastFrameRef,
    lastStateUpdateRef,
    pinchStartTimeRef, wasPinchingRef, pinchStabilityCountRef, lastSelectTimeRef,
    lastSpreadRef, fiveFingerStabilityRef, wasFiveFingerRef,
    smoothedIndexRef,
    \* ---- environment
    now,                        \* Date.now()
    \* ---- observation of the last step
    results,                    \* argument of the last onResults call
    events,                     \* callbacks invoked by the last step
    published,                  \* setGesture was called by the last step
    thrown,                     \* an exception left the handler of the last step
    hist,                       \* history kept to state the properties
    \* ---- the memory list
    storage,                    \* localStorage['memory-tree-data']: Null or Ref(list)
    treeMemories,               \* the store's treeMemories
    memories,                   \* useState of each useTreeMemories instance
    upload,                     \* the uploadMemory call awaiting compressImage
    nextId,                     \* number of ids uuidv4 has handed out
    \* ---- MemoryTreeUI, the consumer of the gesture callbacks
    targetZoom,                 \* the store's targetZoom, in 1/5000
    memoryIndexRef,             \* useRef: index of the memory under the pointer
    selectedMemory              \* useState: Null or Ref(memory)

engine == <<gestureRef, lastHandPosRef, handVisibleLastFrameRef, lastStateUpdateRef,
            pinchStartTimeRef, wasPinchingRef, pinchStabilityCountRef, lastSelectTimeRef,
            lastSpreadRef, fiveFingerStabilityRef, wasFiveFingerRef, smoothedIndexRef>>

pipeline == <<videoRef, canvasRef, handsRef, cameraRef, isInitializedRef,
              isInitializingRef, calls, cameras, mediaPipeCache>>

mem == <<storage, treeMemories, memories, upload, nextId>>

view == <<targetZoom, memoryIndexRef, selectedMemory>>

vars == <<enabled, isLoading, error, gesture, pipeline, engine, now,
          results, events, published, thrown, hist, mem, view>>

----
\* Bounds of the model

\* Date.now() when the hook is mounted (any value of at least SELECT_COOLDOWN_MS
\* behaves alike: lastSelectTimeRef and lastStateUpdateRef start at 0)
StartTime == 1000

\* the clock stops MaxElapsed ms after StartTime
MaxElapsed == 800

\* number of initializeHandTracking calls that get past the guards
MaxCalls == 2

\* number of memories ever created (ids handed out by uuidv4)
MaxUploads == 3

----
\* Configuration constants

PINCH_THRESHOLD == 60
PINCH_EXCLUSION_THRESHOLD == 100
PINCH_STABILITY_FRAMES == 3
PINCH_MIN_HOLD_MS == 150
PINCH_MAX_HOLD_MS == 600
SELECT_COOLDOWN_MS == 500
FIVE_FINGER_STABILITY_FRAMES == 3
SPREAD_ZOOM_SENSITIVITY == 15
FIVE_FINGER_ROTATION_MULT == 2
STATE_UPDATE_INTERVAL == 100
DELTA_DEADZONE == 2
CLUMP_THRESHOLD == 120
INDEX_EXTENSION_THRESHOLD == 150

\* SMOOTHING_FACTOR = 0.3 as a fraction
SMOOTHING_NUM == 3
SMOOTHING_DEN == 10

\* isFingerExtended's margin 1.05, squared, as a fraction: 1.1025 = 441/400
EXT_MARGIN_SQ_NUM == 441
EXT_MARGIN_SQ_DEN == 400

FINGERTIP_INDICES == <<4, 8, 12, 16, 20>>

\* spread units per coordinate unit: dividing the sum of the fingertip
\* distances by their number is exact
SpreadScale == Len(FINGERTIP_INDICES)

\* 0.01 in spread units
ZOOM_EPSILON == 10 * SpreadScale

\* 1.0 in spread units: the unit of the zoom deltas and of targetZoom
ZoomUnit == 1000 * SpreadScale

----
\* Arithmetic helpers

Abs(x) == IF x < 0 THEN -x ELSE x

RECURSIVE SqrtBetween(_, _, _)
SqrtBetween(n, lo, hi) ==
    IF hi - lo <= 1 THEN lo
    ELSE LET mid == (lo + hi) \div 2
         IN  IF mid * mid <= n THEN SqrtBetween(n, mid, hi)
                               ELSE SqrtBetween(n, lo, mid)

\* Math.sqrt on fixed-point values: the integer r with r*r <= n < (r+1)*(r+1);
\* exact whenever n is a perfect square
Sqrt(n) == SqrtBetween(n, 0, 2048)

Sq(x) == x * x

----
\* Geometry utilities

\* squared 3D distance (the argument of Math.sqrt in distance)
DistSq(a, b) == Sq(a.x - b.x) + Sq(a.y - b.y) + Sq(a.z - b.z)

\* squared 2D distance (the argument of Math.sqrt in distance2D)
Dist2DSq(a, b) == Sq(a.x - b.x) + Sq(a.y - b.y)

distance(a, b) == Sqrt(DistSq(a, b))

distance2D(a, b) == Sqrt(Dist2DSq(a, b))

\* tipDist > mcpDist * 1.05, compared on the squares (both sides are >= 0)
isFingerExtended(landmarks, tipIdx, mcpIdx) ==
    LET wrist == landmarks[0]
        tip == landmarks[tipIdx]
        mcp == landmarks[mcpIdx]
    IN  DistSq(tip, wrist) * EXT_MARGIN_SQ_DEN > DistSq(mcp, wrist) * EXT_MARGIN_SQ_NUM

RECURSIVE SumTipDist(_, _)
SumTipDist(landmarks, i) ==
    IF i > Len(FINGERTIP_INDICES) THEN 0
    ELSE distance(landmarks[FINGERTIP_INDICES[i]], landmarks[0]) + SumTipDist(landmarks, i + 1)

\* mean distance wrist -> fingertips, in spread units
calculateHandSpread(landmarks) ==
    (SumTipDist(landmarks, 1) * SpreadScale) \div Len(FINGERTIP_INDICES)

\* approximate equality of two snapshots
gesturesEqual(a, b) ==
    /\ a.isPinching = b.isPinching
    /\ a.isTapping = b.isTapping
    /\ a.isFiveFingerMode = b.isFiveFingerMode
    /\ a.isZooming = b.isZooming
    /\ a.isScrollMode = b.isScrollMode
    /\ Abs(a.pinchDistance - b.pinchDistance) < 10
    /\ Abs(a.indexPosition.x - b.indexPosition.x) < 10
    /\ Abs(a.indexPosition.y - b.indexPosition.y) < 10
    /\ Abs(a.zoomDelta - b.zoomDelta) < ZOOM_EPSILON
    /\ Abs(a.spreadDelta - b.spreadDelta) < ZOOM_EPSILON
    /\ Abs(a.scrollY - b.scrollY) < 20

----
\* Values

P(x, y, z) == [x |-> x, y |-> y, z |-> z]

XY(x, y) == [x |-> x, y |-> y]

\* a nullable ref holds <<>> (null) or <<v>>
Null == <<>>

Ref(v) == <<v>>

\* initial value of gestureRef and of the gesture state
InitialGesture ==
    [isPinching |-> FALSE,
     pinchDistance |-> 0,
     palmPosition |-> XY(500, 500),
     indexPosition |-> XY(500, 500),
     isTapping |-> FALSE,
     isZooming |-> FALSE,
     zoomDelta |-> 0,
     isFiveFingerMode |-> FALSE,
     handSpread |-> 0,
     spreadDelta |-> 0,
     rotationMultiplier |-> 1,
     isScrollMode |-> FALSE,
     scrollY |-> 500,
     deltaX |-> 0,
     deltaY |-> 0]

NoEvents ==
    [onPinchSelect |-> <<>>, onIndexMove |-> <<>>, onDeltaMove |-> <<>>,
     onZoom |-> <<>>, onFiveFingerZoom |-> <<>>, onScrollMove |-> <<>>]

\* results of a frame without a hand, and of a frame with one hand
NoHandResults == [multiHandLandmarks |-> <<>>]

HandResults(landmarks) == [multiHandLandmarks |-> <<landmarks>>]

----
\* Hand samples fed to the engine: the landmarks the classifier reads
\* (0 wrist, 4/8/12/16/20 fingertips, 2/5/9/13/17 knuckles), index fingertip at
\* (0.5, 0.5).  In every sample the wrist-to-fingertip distances and the
\* thumb-to-index distance are whole numbers, so Sqrt is exact where its value
\* is used.

\* open hand, all five fingers extended; middle fingertip m from the wrist,
\* hand spread (1200 + m) / 5000
OpenHand(m) ==
    0 :> P(590, 806, -5) @@ 2 :> P(530, 726, -5) @@ 4 :> P(390, 596, -5) @@
    5 :> P(550, 656, -5) @@ 8 :> P(500, 500, 0) @@ 9 :> P(590, 646, -5) @@
    12 :> P(590, 806 - m, -5) @@ 13 :> P(630, 656, -5) @@ 16 :> P(686, 506, -2) @@
    17 :> P(670, 686, -5) @@ 20 :> P(766, 594, 11)

\* thumb on index (0.030 apart), the other fingers extended: a valid pinch
\* with all five fingers passing the extension test
PinchOpen ==
    0 :> P(590, 806, -5) @@ 2 :> P(530, 726, -5) @@ 4 :> P(482, 524, -1) @@
    5 :> P(550, 656, -5) @@ 8 :> P(500, 500, 0) @@ 9 :> P(590, 646, -5) @@
    12 :> P(590, 446, -5) @@ 13 :> P(630, 656, -5) @@ 16 :> P(680, 473, 1) @@
    17 :> P(670, 686, -5) @@ 20 :> P(770, 566, -5)

\* thumb on index, the other fingers curled: a valid pinch
PinchCurl ==
    0 :> P(590, 806, -5) @@ 2 :> P(530, 726, -5) @@ 4 :> P(482, 524, -1) @@
    5 :> P(550, 656, -5) @@ 8 :> P(500, 500, 0) @@ 9 :> P(590, 646, -5) @@
    12 :> P(590, 656, -5) @@ 13 :> P(630, 656, -5) @@ 16 :> P(641, 666, -5) @@
    17 :> P(670, 686, -5) @@ 20 :> P(680, 686, -5)

\* index pointing, the four other fingertips clumped: the scroll pose
Point ==
    0 :> P(557, 824, -4) @@ 2 :> P(497, 744, -4) @@ 4 :> P(533, 680, -2) @@
    5 :> P(517, 674, -4) @@ 8 :> P(500, 500, 0) @@ 9 :> P(557, 664, -4) @@
    12 :> P(557, 684, -4) @@ 13 :> P(597, 674, -4) @@ 16 :> P(595, 682, -3) @@
    17 :> P(637, 704, -4) @@ 20 :> P(621, 704, -4)

\* narrow open hand: all five fingers extended and also the scroll pose
OpenNarrow ==
    0 :> P(642, 834, -7) @@ 2 :> P(622, 774, -7) @@ 4 :> P(602, 636, -7) @@
    5 :> P(622, 734, -7) @@ 8 :> P(500, 500, 0) @@ 9 :> P(642, 734, -7) @@
    12 :> P(642, 594, -7) @@ 13 :> P(662, 734, -7) @@ 16 :> P(690, 606, -6) @@
    17 :> P(672, 754, -7) @@ 20 :> P(706, 634, -5)

\* closed fist, thumb 0.008 from the index fingertip: no predicate holds
Fist ==
    0 :> P(527, 620, 0) @@ 2 :> P(467, 540, 0) @@ 4 :> P(492, 500, 0) @@
    5 :> P(487, 470, 0) @@ 8 :> P(500, 500, 0) @@ 9 :> P(527, 460, 0) @@
    12 :> P(527, 480, 0) @@ 13 :> P(567, 470, 0) @@ 16 :> P(565, 478, 1) @@
    17 :> P(607, 500, 0) @@ 20 :> P(591, 500, 0)

\* the same hand moved by (dx, dy)
Translate(landmarks, dx, dy) ==
    [i \in DOMAIN landmarks |->
        P(landmarks[i].x + dx, landmarks[i].y + dy, landmarks[i].z)]

----
\* State after the first render of MemoryTreeUI: handTrackingEnabled is false
\* (App.tsx:1135), so the mount effect only ran cleanup.  localStorage holds
\* no list yet, so fetchMemories of both useTreeMemories instances (AdminPanel,
\* App.tsx:779, and MemoryTreeUI, App.tsx:1126) and the sync effect of
\* MemoryTreeUI (App.tsx:1131-1133) stored the empty list.

Instances == {"admin", "ui"}

NoCall == [pc |-> "idle", gesture |-> InitialGesture, stopped |-> FALSE]

\* the state after mounting with `list` in localStorage (Null when nothing was
\* ever stored): fetchMemories of both instances read it
MountedWith(list) ==
    /\ enabled = FALSE
    /\ isLoading = TRUE
    /\ error = Null
    /\ gesture = InitialGesture
    /\ videoRef = 0 /\ canvasRef = 0 /\ handsRef = 0 /\ cameraRef = 0
    /\ isInitializedRef = FALSE
    /\ isInitializingRef = FALSE
    /\ calls = [i \in 1..MaxCalls |-> NoCall]
    /\ cameras = {}
    /\ mediaPipeCache = FALSE
    /\ gestureRef = InitialGesture
    /\ lastHandPosRef = Null
    /\ handVisibleLastFrameRef = FALSE
    /\ lastStateUpdateRef = 0
    /\ pinchStartTimeRef = 0
    /\ wasPinchingRef = FALSE
    /\ pinchStabilityCountRef = 0
    /\ lastSelectTimeRef = 0
    /\ lastSpreadRef = 0
    /\ fiveFingerStabilityRef = 0
    /\ wasFiveFingerRef = FALSE
    /\ smoothedIndexRef = XY(500, 500)
    /\ now = StartTime
    /\ results = NoHandResults
    /\ events = NoEvents
    /\ published = FALSE
    /\ thrown = FALSE
    /\ storage = list
    /\ \E parsed \in {IF list = Null THEN <<>> ELSE list[1]} :
        /\ treeMemories = parsed
        /\ memories = [inst \in Instances |-> parsed]
        /\ nextId = Len(parsed)
    /\ upload = Null
    /\ targetZoom = 8 * ZoomUnit
    /\ memoryIndexRef = 0
    /\ selectedMemory = Null
    /\ hist = [step |-> "mount", prevFrame |-> "none", frame |-> "none",
               pinchRun |-> 0, validSeen |-> 0, becameAt |-> 0, release |-> FALSE,
               selects |-> <<>>, fresh |-> TRUE, id |-> 0]

\* the first visit: nothing in localStorage
Init == MountedWith(Null)

----
\* The per-frame handler hands.onResults

\* a started camera calls onFrame, which sends the image to handsRef.current
\* when handsRef.current and videoRef.current are set
FrameDelivered ==
    /\ cameras # {}
    /\ handsRef # 0
    /\ videoRef # 0

\* the pinch validity predicate
isValidPinchGesture(landmarks) ==
    LET thumb == landmarks[4]
    IN  /\ Dist2DSq(thumb, landmarks[8]) < Sq(PINCH_THRESHOLD)
        /\ Dist2DSq(thumb, landmarks[12]) > Sq(PINCH_EXCLUSION_THRESHOLD)
        /\ Dist2DSq(thumb, landmarks[16]) > Sq(PINCH_EXCLUSION_THRESHOLD)
        /\ Dist2DSq(thumb, landmarks[20]) > Sq(PINCH_EXCLUSION_THRESHOLD)

allFingersExtended(landmarks) ==
    /\ isFingerExtended(landmarks, 4, 2)
    /\ isFingerExtended(landmarks, 8, 5)
    /\ isFingerExtended(landmarks, 12, 9)
    /\ isFingerExtended(landmarks, 16, 13)
    /\ isFingerExtended(landmarks, 20, 17)

fourFingersClumped(landmarks) ==
    /\ Dist2DSq(landmarks[4], landmarks[12]) < Sq(CLUMP_THRESHOLD)
    /\ Dist2DSq(landmarks[4], landmarks[16]) < Sq(CLUMP_THRESHOLD)
    /\ Dist2DSq(landmarks[4], landmarks[20]) < Sq(CLUMP_THRESHOLD)
    /\ Dist2DSq(landmarks[12], landmarks[16]) < Sq(CLUMP_THRESHOLD)
    /\ Dist2DSq(landmarks[16], landmarks[20]) < Sq(CLUMP_THRESHOLD)

indexExtended(landmarks) ==
    /\ Dist2DSq(landmarks[4], landmarks[8]) > Sq(INDEX_EXTENSION_THRESHOLD)
    /\ isFingerExtended(landmarks, 8, 5)

DeadZone_Inclusive(rawDelta) == IF Abs(rawDelta) >= DELTA_DEADZONE THEN rawDelta ELSE 0

\* dead-zone of the frame-to-frame delta
DeadZone(rawDelta) == IF Abs(rawDelta) > DELTA_DEADZONE THEN rawDelta ELSE 0

\* one step of the exponential moving average, rounded down to the unit
Smooth(estimate, raw) ==
    estimate + ((raw - estimate) * SMOOTHING_NUM) \div SMOOTHING_DEN

PinchStable_Late(count) == count > PINCH_STABILITY_FRAMES

\* the pinch stability threshold test
PinchStable(count) == count >= PINCH_STABILITY_FRAMES

\* the five-finger stability threshold test
FiveFingerStable(count) == count >= FIVE_FINGER_STABILITY_FRAMES

IsTap_StrictMin(pinchDuration, timeSinceLastSelect) ==
    /\ pinchDuration > PINCH_MIN_HOLD_MS
    /\ pinchDuration <= PINCH_MAX_HOLD_MS
    /\ timeSinceLastSelect >= SELECT_COOLDOWN_MS

IsTap_StrictCooldown(pinchDuration, timeSinceLastSelect) ==
    /\ pinchDuration >= PINCH_MIN_HOLD_MS
    /\ pinchDuration <= PINCH_MAX_HOLD_MS
    /\ timeSinceLastSelect >= SELECT_COOLDOWN_MS - 1

\* the tap test on release
IsTap(pinchDuration, timeSinceLastSelect) ==
    /\ pinchDuration >= PINCH_MIN_HOLD_MS
    /\ pinchDuration <= PINCH_MAX_HOLD_MS
    /\ timeSinceLastSelect >= SELECT_COOLDOWN_MS

\* the zoom test on the spread delta
IsZoom(spreadDelta) == Abs(spreadDelta) > ZOOM_EPSILON

\* the throttle test: setGesture is called iff this holds; closureGesture is
\* the `gesture` captured by the handler's closure
ShouldPublish(closureGesture, newGesture, timeSinceLastUpdate) ==
    /\ \/ timeSinceLastUpdate >= STATE_UPDATE_INTERVAL
       \/ ~gesturesEqual(closureGesture, newGesture)
    /\ ~gesturesEqual(closureGesture, newGesture)

FiveFingerGate_IgnorePinch(landmarks, isPinching) == allFingersExtended(landmarks)

\* the five-finger gate
FiveFingerGate(landmarks, isPinching) == allFingersExtended(landmarks) /\ ~isPinching

ScrollMode_Ungated(landmarks, isPinching, isFiveFingerMode) ==
    /\ fourFingersClumped(landmarks)
    /\ indexExtended(landmarks)
    /\ ~isPinching

ScrollMode_AfterOneFrame(landmarks, isPinching, isFiveFingerMode) ==
    /\ fourFingersClumped(landmarks)
    /\ indexExtended(landmarks)
    /\ ~isPinching
    /\ ~isFiveFingerMode
    /\ handVisibleLastFrameRef

\* the scroll mode predicate
ScrollMode(landmarks, isPinching, isFiveFingerMode) ==
    /\ fourFingersClumped(landmarks)
    /\ indexExtended(landmarks)
    /\ ~isPinching
    /\ ~isFiveFingerMode

\* delta against the last raw position
Delta(lastPos, visibleLastFrame, raw, axis) ==
    IF lastPos # Null /\ visibleLastFrame
    THEN DeadZone(raw[axis] - lastPos[1][axis])
    ELSE 0

PinchDetection_KeepsCount(landmarks, t) ==
    LET valid == isValidPinchGesture(landmarks)
        count == IF valid THEN pinchStabilityCountRef + 1 ELSE pinchStabilityCountRef
        isPinching == valid /\ PinchStable(count)
    IN  [valid |-> valid,
         count |-> count,
         isPinching |-> isPinching,
         pinchStart |-> IF isPinching /\ ~wasPinchingRef THEN t ELSE pinchStartTimeRef,
         isTapping |-> /\ ~valid
                       /\ wasPinchingRef
                       /\ IsTap(t - pinchStartTimeRef, t - lastSelectTimeRef)]

\* pinch detection: the counter, the flags and the tap decision of this frame
PinchDetection(landmarks, t) ==
    LET valid == isValidPinchGesture(landmarks)
        count == IF valid THEN pinchStabilityCountRef + 1 ELSE 0
        isPinching == valid /\ PinchStable(count)
    IN  [valid |-> valid,
         count |-> count,
         isPinching |-> isPinching,
         pinchStart |-> IF isPinching /\ ~wasPinchingRef THEN t ELSE pinchStartTimeRef,
         isTapping |-> /\ ~valid
                       /\ wasPinchingRef
                       /\ IsTap(t - pinchStartTimeRef, t - lastSelectTimeRef)]

SpreadDelta_Unscaled(currentSpread, lastSpread) == currentSpread - lastSpread

\* the zoom signal of a change of spread
SpreadDelta(currentSpread, lastSpread) ==
    (currentSpread - lastSpread) * SPREAD_ZOOM_SENSITIVITY

FiveFingerDetection_KeepsSpread(landmarks, isPinching) ==
    LET gate == FiveFingerGate(landmarks, isPinching)
        count == IF gate THEN fiveFingerStabilityRef + 1 ELSE 0
        isFiveFingerMode == gate /\ FiveFingerStable(count)
        currentSpread == calculateHandSpread(landmarks)
        compared == isFiveFingerMode /\ wasFiveFingerRef /\ lastSpreadRef > 0
        spreadDelta == IF compared THEN SpreadDelta(currentSpread, lastSpreadRef) ELSE 0
    IN  [count |-> count,
         isFiveFingerMode |-> isFiveFingerMode,
         spreadDelta |-> spreadDelta,
         zoom |-> compared /\ IsZoom(spreadDelta),
         rotationMultiplier |-> IF isFiveFingerMode THEN FIVE_FINGER_ROTATION_MULT ELSE 1,
         lastSpread |-> IF isFiveFingerMode THEN currentSpread ELSE lastSpreadRef]

FiveFingerDetection_EagerMultiplier(landmarks, isPinching) ==
    LET gate == FiveFingerGate(landmarks, isPinching)
        count == IF gate THEN fiveFingerStabilityRef + 1 ELSE 0
        isFiveFingerMode == gate /\ FiveFingerStable(count)
        currentSpread == calculateHandSpread(landmarks)
        compared == isFiveFingerMode /\ wasFiveFingerRef /\ lastSpreadRef > 0
        spreadDelta == IF compared THEN SpreadDelta(currentSpread, lastSpreadRef) ELSE 0
    IN  [count |-> count,
         isFiveFingerMode |-> isFiveFingerMode,
         spreadDelta |-> spreadDelta,
         zoom |-> compared /\ IsZoom(spreadDelta),
         rotationMultiplier |-> IF gate THEN FIVE_FINGER_ROTATION_MULT ELSE 1,
         lastSpread |-> IF ~gate THEN 0
                        ELSE IF isFiveFingerMode THEN currentSpread
                        ELSE lastSpreadRef]

\* five-finger mode detection, after pinch detection
FiveFingerDetection(landmarks, isPinching) ==
    LET gate == FiveFingerGate(landmarks, isPinching)
        count == IF gate THEN fiveFingerStabilityRef + 1 ELSE 0
        isFiveFingerMode == gate /\ FiveFingerStable(count)
        currentSpread == calculateHandSpread(landmarks)
        compared == isFiveFingerMode /\ wasFiveFingerRef /\ lastSpreadRef > 0
        spreadDelta == IF compared THEN SpreadDelta(currentSpread, lastSpreadRef) ELSE 0
    IN  [count |-> count,
         isFiveFingerMode |-> isFiveFingerMode,
         spreadDelta |-> spreadDelta,
         zoom |-> compared /\ IsZoom(spreadDelta),
         rotationMultiplier |-> IF isFiveFingerMode THEN FIVE_FINGER_ROTATION_MULT ELSE 1,
         lastSpread |-> IF ~gate THEN 0
                        ELSE IF isFiveFingerMode THEN currentSpread
                        ELSE lastSpreadRef]

NewGesture_TappingOnAnyRelease(landmarks, pinch, five, isScrollMode, deltaX, deltaY) ==
    [isPinching |-> pinch.isPinching,
     pinchDistance |-> distance2D(landmarks[4], landmarks[8]),
     palmPosition |-> XY(landmarks[0].x, landmarks[0].y),
     indexPosition |-> XY(landmarks[8].x, landmarks[8].y),
     isTapping |-> ~pinch.valid /\ wasPinchingRef,
     isZooming |-> five.isFiveFingerMode /\ IsZoom(five.spreadDelta),
     zoomDelta |-> five.spreadDelta,
     isFiveFingerMode |-> five.isFiveFingerMode,
     handSpread |-> calculateHandSpread(landmarks),
     spreadDelta |-> five.spreadDelta,
     rotationMultiplier |-> five.rotationMultiplier,
     isScrollMode |-> isScrollMode,
     scrollY |-> landmarks[8].y,
     deltaX |-> deltaX,
     deltaY |-> deltaY]

NewGesture_ZoomingOnAnyDelta(landmarks, pinch, five, isScrollMode, deltaX, deltaY) ==
    [isPinching |-> pinch.isPinching,
     pinchDistance |-> distance2D(landmarks[4], landmarks[8]),
     palmPosition |-> XY(landmarks[0].x, landmarks[0].y),
     indexPosition |-> XY(landmarks[8].x, landmarks[8].y),
     isTapping |-> pinch.isTapping,
     isZooming |-> five.isFiveFingerMode /\ five.spreadDelta # 0,
     zoomDelta |-> five.spreadDelta,
     isFiveFingerMode |-> five.isFiveFingerMode,
     handSpread |-> calculateHandSpread(landmarks),
     spreadDelta |-> five.spreadDelta,
     rotationMultiplier |-> five.rotationMultiplier,
     isScrollMode |-> isScrollMode,
     scrollY |-> landmarks[8].y,
     deltaX |-> deltaX,
     deltaY |-> deltaY]

\* the snapshot of the frame
NewGesture(landmarks, pinch, five, isScrollMode, deltaX, deltaY) ==
    [isPinching |-> pinch.isPinching,
     pinchDistance |-> distance2D(landmarks[4], landmarks[8]),
     palmPosition |-> XY(landmarks[0].x, landmarks[0].y),
     indexPosition |-> XY(landmarks[8].x, landmarks[8].y),
     isTapping |-> pinch.isTapping,
     isZooming |-> five.isFiveFingerMode /\ IsZoom(five.spreadDelta),
     zoomDelta |-> five.spreadDelta,
     isFiveFingerMode |-> five.isFiveFingerMode,
     handSpread |-> calculateHandSpread(landmarks),
     spreadDelta |-> five.spreadDelta,
     rotationMultiplier |-> five.rotationMultiplier,
     isScrollMode |-> isScrollMode,
     scrollY |-> landmarks[8].y,
     deltaX |-> deltaX,
     deltaY |-> deltaY]

Emit_DeltaInScroll(index, pinch, five, isScrollMode, deltaX, deltaY) ==
    [onPinchSelect |-> IF pinch.isTapping THEN << <<>> >> ELSE <<>>,
     onFiveFingerZoom |-> IF five.zoom THEN << <<five.spreadDelta>> >> ELSE <<>>,
     onScrollMove |-> IF isScrollMode THEN << <<index.y>> >> ELSE <<>>,
     onDeltaMove |-> IF deltaX # 0 \/ deltaY # 0
                     THEN << <<deltaX, deltaY>> >> ELSE <<>>,
     onIndexMove |-> IF ~isScrollMode THEN << <<index.x, index.y>> >> ELSE <<>>,
     onZoom |-> <<>>]

Emit_IndexMoveOnMovement(index, pinch, five, isScrollMode, deltaX, deltaY) ==
    [onPinchSelect |-> IF pinch.isTapping THEN << <<>> >> ELSE <<>>,
     onFiveFingerZoom |-> IF five.zoom THEN << <<five.spreadDelta>> >> ELSE <<>>,
     onScrollMove |-> IF isScrollMode THEN << <<index.y>> >> ELSE <<>>,
     onDeltaMove |-> IF (deltaX # 0 \/ deltaY # 0) /\ ~isScrollMode
                     THEN << <<deltaX, deltaY>> >> ELSE <<>>,
     onIndexMove |-> IF (deltaX # 0 \/ deltaY # 0) /\ ~isScrollMode
                     THEN << <<index.x, index.y>> >> ELSE <<>>,
     onZoom |-> <<>>]

Emit_DeltaOnXOnly(index, pinch, five, isScrollMode, deltaX, deltaY) ==
    [onPinchSelect |-> IF pinch.isTapping THEN << <<>> >> ELSE <<>>,
     onFiveFingerZoom |-> IF five.zoom THEN << <<five.spreadDelta>> >> ELSE <<>>,
     onScrollMove |-> IF isScrollMode THEN << <<index.y>> >> ELSE <<>>,
     onDeltaMove |-> IF deltaX # 0 /\ ~isScrollMode
                     THEN << <<deltaX, deltaY>> >> ELSE <<>>,
     onIndexMove |-> IF ~isScrollMode THEN << <<index.x, index.y>> >> ELSE <<>>,
     onZoom |-> <<>>]

Emit_ZoomToo(index, pinch, five, isScrollMode, deltaX, deltaY) ==
    [onPinchSelect |-> IF pinch.isTapping THEN << <<>> >> ELSE <<>>,
     onFiveFingerZoom |-> IF five.zoom THEN << <<five.spreadDelta>> >> ELSE <<>>,
     onScrollMove |-> IF isScrollMode THEN << <<index.y>> >> ELSE <<>>,
     onDeltaMove |-> IF (deltaX # 0 \/ deltaY # 0) /\ ~isScrollMode
                     THEN << <<deltaX, deltaY>> >> ELSE <<>>,
     onIndexMove |-> IF ~isScrollMode THEN << <<index.x, index.y>> >> ELSE <<>>,
     onZoom |-> IF five.zoom THEN << <<five.spreadDelta>> >> ELSE <<>>]

\* the callbacks of the frame
Emit(index, pinch, five, isScrollMode, deltaX, deltaY) ==
    [onPinchSelect |-> IF pinch.isTapping THEN << <<>> >> ELSE <<>>,
     onFiveFingerZoom |-> IF five.zoom THEN << <<five.spreadDelta>> >> ELSE <<>>,
     onScrollMove |-> IF isScrollMode THEN << <<index.y>> >> ELSE <<>>,
     onDeltaMove |-> IF (deltaX # 0 \/ deltaY # 0) /\ ~isScrollMode
                     THEN << <<deltaX, deltaY>> >> ELSE <<>>,
     onIndexMove |-> IF ~isScrollMode THEN << <<index.x, index.y>> >> ELSE <<>>,
     onZoom |-> <<>>]

\* frame with a hand: landmarks = results.multiHandLandmarks[0], at time t
\* (each \E binds the one value of a section of the handler)
HandBranch(landmarks, t) ==
    \E index \in {landmarks[8]} :
    \E deltaX \in {Delta(lastHandPosRef, handVisibleLastFrameRef, index, "x")} :
    \E deltaY \in {Delta(lastHandPosRef, handVisibleLastFrameRef, index, "y")} :
    \E pinch \in {PinchDetection(landmarks, t)} :
    \E five \in {FiveFingerDetection(landmarks, pinch.isPinching)} :
    \E isScrollMode \in {ScrollMode(landmarks, pinch.isPinching, five.isFiveFingerMode)} :
    \E newGesture \in {NewGesture(landmarks, pinch, five, isScrollMode, deltaX, deltaY)} :
    \E publish \in {ShouldPublish(calls[handsRef].gesture, newGesture,
                                  t - lastStateUpdateRef)} :
        /\ smoothedIndexRef' = XY(Smooth(smoothedIndexRef.x, index.x),
                                  Smooth(smoothedIndexRef.y, index.y))
        /\ lastHandPosRef' = Ref(XY(index.x, index.y))
        /\ handVisibleLastFrameRef' = TRUE
        /\ pinchStabilityCountRef' = pinch.count
        /\ pinchStartTimeRef' = pinch.pinchStart
        /\ lastSelectTimeRef' = IF pinch.isTapping THEN t ELSE lastSelectTimeRef
        /\ wasPinchingRef' = pinch.isPinching
        /\ fiveFingerStabilityRef' = five.count
        /\ lastSpreadRef' = five.lastSpread
        /\ wasFiveFingerRef' = five.isFiveFingerMode
        /\ gestureRef' = newGesture
        /\ gesture' = IF publish THEN newGesture ELSE gesture
        /\ lastStateUpdateRef' = IF publish THEN t ELSE lastStateUpdateRef
        /\ published' = publish
        /\ thrown' = FALSE
        /\ events' = Emit(index, pinch, five, isScrollMode, deltaX, deltaY)
        /\ hist' = [hist EXCEPT
                !.step = "frame",
                !.prevFrame = hist.frame,
                !.frame = "hand",
                !.pinchRun = IF ~pinch.valid THEN 0
                             ELSE IF hist.pinchRun >= 0 THEN hist.pinchRun + 1
                             ELSE -1,
                !.validSeen = IF pinch.valid THEN hist.validSeen + 1 ELSE 0,
                !.fresh = FALSE,
                !.becameAt = IF pinch.isPinching /\ ~gestureRef.isPinching THEN t
                             ELSE hist.becameAt,
                !.release = ~pinch.valid /\ gestureRef.isPinching,
                !.selects = IF pinch.isTapping THEN Append(hist.selects, t)
                            ELSE hist.selects]

NoHandBranch_KeepPosition ==
    /\ UNCHANGED <<engine, gesture>>
    /\ published' = FALSE
    /\ thrown' = FALSE
    /\ events' = NoEvents
    /\ hist' = [hist EXCEPT
            !.step = "frame",
            !.prevFrame = hist.frame,
            !.frame = "nohand",
            !.release = FALSE,
            !.pinchRun = IF pinchStabilityCountRef = 0 THEN 0 ELSE -1]

NoHandBranch_ResetCounters ==
    /\ lastHandPosRef' = Null
    /\ handVisibleLastFrameRef' = FALSE
    /\ pinchStabilityCountRef' = 0
    /\ fiveFingerStabilityRef' = 0
    /\ UNCHANGED <<gestureRef, gesture, lastStateUpdateRef, pinchStartTimeRef,
                   wasPinchingRef, lastSelectTimeRef, lastSpreadRef,
                   wasFiveFingerRef, smoothedIndexRef>>
    /\ published' = FALSE
    /\ thrown' = FALSE
    /\ events' = NoEvents
    /\ hist' = [hist EXCEPT
            !.step = "frame",
            !.prevFrame = hist.frame,
            !.frame = "nohand",
            !.release = FALSE,
            !.pinchRun = IF pinchStabilityCountRef = 0 THEN 0 ELSE -1]

NoHandBranch_ClearsSnapshot ==
    /\ lastHandPosRef' = Null
    /\ handVisibleLastFrameRef' = FALSE
    /\ gestureRef' = InitialGesture
    /\ UNCHANGED <<gesture, lastStateUpdateRef, pinchStartTimeRef,
                   wasPinchingRef, pinchStabilityCountRef, lastSelectTimeRef,
                   lastSpreadRef, fiveFingerStabilityRef, wasFiveFingerRef,
                   smoothedIndexRef>>
    /\ published' = FALSE
    /\ thrown' = FALSE
    /\ events' = NoEvents
    /\ hist' = [hist EXCEPT
            !.step = "frame",
            !.prevFrame = hist.frame,
            !.frame = "nohand",
            !.release = FALSE,
            !.pinchRun = IF pinchStabilityCountRef = 0 THEN 0 ELSE -1]

NoHandBranch_ForgetsPinch ==
    /\ lastHandPosRef' = Null
    /\ handVisibleLastFrameRef' = FALSE
    /\ pinchStabilityCountRef' = 0
    /\ wasPinchingRef' = FALSE
    /\ UNCHANGED <<gestureRef, gesture, lastStateUpdateRef, pinchStartTimeRef,
                   lastSelectTimeRef, lastSpreadRef, fiveFingerStabilityRef,
                   wasFiveFingerRef, smoothedIndexRef>>
    /\ published' = FALSE
    /\ thrown' = FALSE
    /\ events' = NoEvents
    /\ hist' = [hist EXCEPT
            !.step = "frame",
            !.prevFrame = hist.frame,
            !.frame = "nohand",
            !.release = FALSE,
            !.pinchRun = IF pinchStabilityCountRef = 0 THEN 0 ELSE -1]

\* frame without a hand
NoHandBranch ==
    /\ lastHandPosRef' = Null
    /\ handVisibleLastFrameRef' = FALSE
    /\ UNCHANGED <<gestureRef, gesture, lastStateUpdateRef, pinchStartTimeRef,
                   wasPinchingRef, pinchStabilityCountRef, lastSelectTimeRef,
                   lastSpreadRef, fiveFingerStabilityRef, wasFiveFingerRef,
                   smoothedIndexRef>>
    /\ published' = FALSE
    /\ thrown' = FALSE
    /\ events' = NoEvents
    /\ hist' = [hist EXCEPT
            !.step = "frame",
            !.prevFrame = hist.frame,
            !.frame = "nohand",
            !.release = FALSE,
            !.pinchRun = IF pinchStabilityCountRef = 0 THEN 0 ELSE -1]

\* a landmark array is a function on 0 .. length-1 (of which the model keeps
\* the landmarks the handler's state depends on): the first n entries
Truncated(landmarks, n) ==
    [i \in {j \in DOMAIN landmarks : j < n} |-> landmarks[i]]

\* the array has fewer than 21 entries
Incomplete(landmarks) == 20 \notin DOMAIN landmarks

\* frame with a hand whose landmark array is too short: reading .x of a
\* missing landmark throws a TypeError, which leaves the handler.  The index
\* fingertip (landmarks[8]) is read first, by the smoothing; when it is there,
\* the smoothed and the last position are stored before the drawing code or,
\* without a canvas context, the pinch distances read a missing landmark.
ShortBranch(landmarks) ==
    /\ IF 8 \in DOMAIN landmarks
       THEN /\ smoothedIndexRef' = XY(Smooth(smoothedIndexRef.x, landmarks[8].x),
                                      Smooth(smoothedIndexRef.y, landmarks[8].y))
            /\ lastHandPosRef' = Ref(XY(landmarks[8].x, landmarks[8].y))
            /\ handVisibleLastFrameRef' = TRUE
       ELSE UNCHANGED <<smoothedIndexRef, lastHandPosRef, handVisibleLastFrameRef>>
    /\ UNCHANGED <<gestureRef, gesture, lastStateUpdateRef, pinchStartTimeRef,
                   wasPinchingRef, pinchStabilityCountRef, lastSelectTimeRef,
                   lastSpreadRef, fiveFingerStabilityRef, wasFiveFingerRef>>
    /\ published' = FALSE
    /\ thrown' = TRUE
    /\ events' = NoEvents
    /\ hist' = [hist EXCEPT
            !.step = "frame",
            !.prevFrame = hist.frame,
            !.frame = "short",
            !.release = FALSE,
            !.pinchRun = IF pinchStabilityCountRef = 0 THEN 0 ELSE -1]

\* hands.onResults(res) called dt ms after the previous step
onResults(res, dt) ==
    /\ FrameDelivered
    /\ now + dt <= StartTime + MaxElapsed
    /\ now' = now + dt
    /\ results' = res
    /\ IF Len(res.multiHandLandmarks) > 0
       THEN IF Incomplete(res.multiHandLandmarks[1])
            THEN ShortBranch(res.multiHandLandmarks[1])
            ELSE HandBranch(res.multiHandLandmarks[1], now + dt)
       ELSE NoHandBranch
    /\ UNCHANGED <<enabled, isLoading, error, pipeline, mem, view>>

----
\* Lifecycle: cleanup, initializeHandTracking and the enable/disable effect

\* a step outside the frame handler invokes no gesture callback and publishes
\* nothing; id is the memory a step of the memory list acted on (0: none)
NoFrameOn(step, id) ==
    /\ events' = NoEvents
    /\ published' = FALSE
    /\ thrown' = FALSE
    /\ hist' = [hist EXCEPT !.step = step,
                            !.fresh = hist.fresh \/ step = "enable",
                            !.id = id]
    /\ UNCHANGED <<engine, gesture, now, results>>

\* such a step that acts on no memory
NoFrame(step) == NoFrameOn(step, 0)

\* a lifecycle step of the hand tracking
Quiet(step) == NoFrame(step) /\ UNCHANGED <<mem, view>>

\* the call records after cleanup: the camera in cameraRef is stopped
CallsAfterCleanup ==
    [i \in 1..MaxCalls |->
        IF i = cameraRef THEN [calls[i] EXCEPT !.stopped = TRUE] ELSE calls[i]]

\* a call record that no live object refers to can be used again
Reusable(i) ==
    /\ calls[i].pc \in {"idle", "done", "failed"}
    /\ i \notin cameras \ {cameraRef}

\* handTrackingEnabled false -> true.  The previous effect's cleanup function
\* runs cleanup() (its `enabled` was false), then the effect calls the new
\* initializeHandTracking, whose closure holds enabled = true and the gesture
\* state of this render.  After cleanup() both guards are false, so the call
\* goes on to the loads.  With both modules in mediaPipeCache
\* loadMediaPipeFromCDN returns resolved promises: the call continues in the
\* microtasks of the same task, up to camera.start().
Enable ==
    /\ ~enabled
    /\ \E i \in 1..MaxCalls :
        /\ Reusable(i)
        /\ \A j \in 1..(i - 1) : ~Reusable(j)
        /\ calls' = [CallsAfterCleanup EXCEPT
                        ![i] = [pc |-> IF mediaPipeCache THEN "starting" ELSE "loading",
                                gesture |-> gesture, stopped |-> FALSE]]
        /\ \E created \in {IF mediaPipeCache THEN i ELSE 0} :
            cameraRef' = created /\ videoRef' = created
                /\ canvasRef' = created /\ handsRef' = created
    /\ enabled' = TRUE
    /\ cameras' = cameras \ {cameraRef}
    /\ isInitializedRef' = FALSE
    /\ isInitializingRef' = TRUE
    /\ isLoading' = TRUE
    /\ UNCHANGED <<error, mediaPipeCache>>
    /\ Quiet("enable")

\* handTrackingEnabled true -> false: the effect runs cleanup()
Disable ==
    /\ enabled
    /\ enabled' = FALSE
    /\ calls' = CallsAfterCleanup
    /\ cameras' = cameras \ {cameraRef}
    /\ cameraRef' = 0 /\ videoRef' = 0 /\ canvasRef' = 0 /\ handsRef' = 0
    /\ isInitializedRef' = FALSE
    /\ isInitializingRef' = FALSE
    /\ UNCHANGED <<isLoading, error, mediaPipeCache>>
    /\ Quiet("disable")

\* both loadMediaPipeFromCDN promises resolved (the scripts came over the
\* network and put the constructors into mediaPipeCache): the call re-checks
\* its own `enabled` (true, or it had returned before the loads), creates the
\* video, the canvas, the Hands instance and the Camera and calls
\* camera.start()
LoadsDone(i) ==
    /\ calls[i].pc = "loading"
    /\ calls' = [calls EXCEPT ![i].pc = "starting"]
    /\ mediaPipeCache' = TRUE
    /\ videoRef' = i /\ canvasRef' = i /\ handsRef' = i /\ cameraRef' = i
    /\ UNCHANGED <<enabled, isLoading, error, isInitializedRef, isInitializingRef,
                   cameras>>
    /\ Quiet("loaded")

\* a load rejected: the catch block
LoadFailed(i) ==
    /\ calls[i].pc = "loading"
    /\ calls' = [calls EXCEPT ![i].pc = "failed"]
    /\ error' = Ref("Failed to load MediaPipe")
    /\ isLoading' = FALSE
    /\ isInitializingRef' = FALSE
    /\ UNCHANGED <<enabled, videoRef, canvasRef, handsRef, cameraRef,
                   isInitializedRef, cameras, mediaPipeCache>>
    /\ Quiet("loadFailed")

\* camera.start() resolved.  A camera that cleanup() stopped before its start
\* completed may or may not deliver frames afterwards.
CameraStarted(i) ==
    /\ calls[i].pc = "starting"
    /\ calls' = [calls EXCEPT ![i].pc = "done"]
    /\ \E live \in (IF calls[i].stopped THEN BOOLEAN ELSE {TRUE}) :
        cameras' = IF live THEN cameras \cup {i} ELSE cameras
    /\ isInitializedRef' = TRUE
    /\ isInitializingRef' = FALSE
    /\ isLoading' = FALSE
    /\ error' = Null
    /\ UNCHANGED <<enabled, videoRef, canvasRef, handsRef, cameraRef, mediaPipeCache>>
    /\ Quiet("started")

\* camera.start() rejected: the catch block
CameraFailed(i) ==
    /\ calls[i].pc = "starting"
    /\ calls' = [calls EXCEPT ![i].pc = "failed"]
    /\ error' = Ref("Failed to start camera")
    /\ isLoading' = FALSE
    /\ isInitializingRef' = FALSE
    /\ UNCHANGED <<enabled, videoRef, canvasRef, handsRef, cameraRef,
                   isInitializedRef, cameras, mediaPipeCache>>
    /\ Quiet("startFailed")

----
\* The memory list: useTreeMemories, called by AdminPanel (App.tsx:773-779) and
\* by MemoryTreeUI (App.tsx:1126), each call with its own `memories` state.
\* A memory is modelled by its id, label and year (image_url and created_at
\* are written once and never read by the hook).

\* a step of the memory list leaves the hand tracking alone
MemoryStepOn(step, id) ==
    /\ NoFrameOn(step, id)
    /\ UNCHANGED <<enabled, isLoading, error, pipeline, view>>

\* such a step that stored nothing
MemoryStep(step) == MemoryStepOn(step, 0)

\* memories.filter(m => m.id !== id)
Without(list, id) == SelectSeq(list, LAMBDA m : m.id # id)

\* value || fallback on strings
OrElse(value, fallback) == IF value = "" THEN fallback ELSE value

\* memories.map(m => m.id === id ? {...m, label: label || m.label, year: year || m.year} : m)
Edited(list, id, label, year) ==
    [i \in 1..Len(list) |->
        IF list[i].id = id
        THEN [list[i] EXCEPT !.label = OrElse(label, @), !.year = OrElse(year, @)]
        ELSE list[i]]

\* ids of the memories of a list
Ids(list) == {list[i].id : i \in 1..Len(list)}

Save_NoStore(inst, updatedMemories) ==
    /\ storage' = Ref(updatedMemories)
    /\ memories' = [memories EXCEPT ![inst] = updatedMemories]
    /\ UNCHANGED treeMemories

\* localStorage.setItem(STORAGE_KEY, JSON.stringify(updatedMemories)) went
\* through; setMemories(updatedMemories); setTreeMemories(updatedMemories).
\* The store change re-renders MemoryTreeUI, whose sync effect does not run
\* again: its dependency, the `memories` of its own instance, did not change.
Save(inst, updatedMemories) ==
    /\ storage' = Ref(updatedMemories)
    /\ memories' = [memories EXCEPT ![inst] = updatedMemories]
    /\ treeMemories' = updatedMemories

\* uploadMemory(file, label, year) up to `await compressImage(file)`: the call
\* keeps the `memories` of the render it was made in.  The submit button is
\* disabled while an upload is in flight (isSubmitting).
UploadStart(inst, label, year) ==
    /\ upload = Null
    /\ nextId < MaxUploads
    /\ upload' = Ref([inst |-> inst, memories |-> memories[inst],
                      label |-> label, year |-> year])
    /\ UNCHANGED <<storage, treeMemories, memories, nextId>>
    /\ MemoryStep("uploading")

UploadFinish_StateBeforeStore ==
    /\ upload # Null
    /\ upload' = Null
    /\ nextId' = nextId + 1
    /\ \E stored \in BOOLEAN :
        \E call \in {upload[1]} :
        \E newMemory \in {[id |-> nextId + 1, label |-> call.label, year |-> call.year]} :
            IF stored
            THEN /\ Save(call.inst, Append(call.memories, newMemory))
                 /\ MemoryStepOn("uploaded", newMemory.id)
            ELSE /\ memories' = [memories EXCEPT
                                    ![call.inst] = Append(call.memories, newMemory)]
                 /\ treeMemories' = Append(call.memories, newMemory)
                 /\ UNCHANGED storage
                 /\ MemoryStep("uploadFailed")

\* compressImage resolved: the new memory is appended to the captured list;
\* setItem throws when the quota is exceeded (the size of the image is not
\* modelled, so either outcome is possible)
UploadFinish ==
    /\ upload # Null
    /\ upload' = Null
    /\ nextId' = nextId + 1
    /\ \E stored \in BOOLEAN :
        \E call \in {upload[1]} :
        \E newMemory \in {[id |-> nextId + 1, label |-> call.label, year |-> call.year]} :
            IF stored
            THEN /\ Save(call.inst, Append(call.memories, newMemory))
                 /\ MemoryStepOn("uploaded", newMemory.id)
            ELSE /\ UNCHANGED <<storage, treeMemories, memories>>
                 /\ MemoryStep("uploadFailed")

\* compressImage rejected: the outer catch
UploadRejected ==
    /\ upload # Null
    /\ upload' = Null
    /\ UNCHANGED <<storage, treeMemories, memories, nextId>>
    /\ MemoryStep("uploadFailed")

\* deleteMemory(id), from the row of a listed memory
deleteMemory(inst, id) ==
    /\ id \in Ids(memories[inst])
    /\ \E stored \in BOOLEAN :
            IF stored
            THEN /\ Save(inst, Without(memories[inst], id))
                 /\ MemoryStepOn("deleted", id)
            ELSE /\ UNCHANGED <<storage, treeMemories, memories>>
                 /\ MemoryStep("deleteFailed")
    /\ UNCHANGED <<upload, nextId>>

\* updateMemory(id, label, year), from the edit row of a listed memory
updateMemory(inst, id, label, year) ==
    /\ id \in Ids(memories[inst])
    /\ \E stored \in BOOLEAN :
            IF stored
            THEN /\ Save(inst, Edited(memories[inst], id, label, year))
                 /\ MemoryStepOn("updated", id)
            ELSE /\ UNCHANGED <<storage, treeMemories, memories>>
                 /\ MemoryStep("updateFailed")
    /\ UNCHANGED <<upload, nextId>>

\* the list the gesture handlers of MemoryTreeUI index into
HandlerMemories == memories["ui"]

----
\* MemoryTreeUI (App.tsx:1116-1236): the handlers it passes to useHandTracking.
\* The store notifies MemoryTreeUI synchronously and the effect of lines
\* 1143-1145 copies targetZoom into targetZoomRef before the next callback, so
\* the handlers read the store's value.

\* a handler of MemoryTreeUI leaves the hand tracking and the memory list alone
HandlerStep(step) ==
    /\ NoFrame(step)
    /\ UNCHANGED <<enabled, isLoading, error, pipeline, mem>>

\* Math.max(lo, Math.min(hi, value))
Within(lo, hi, value) == IF value < lo THEN lo ELSE IF value > hi THEN hi ELSE value

\* Math.max(0, Math.min(treeMemories.length - 1, memoryIndex)): 0 for an empty list
ClampedIndex(memoryIndex) ==
    IF memoryIndex > Len(HandlerMemories) - 1
    THEN (IF Len(HandlerMemories) - 1 < 0 THEN 0 ELSE Len(HandlerMemories) - 1)
    ELSE IF memoryIndex < 0 THEN 0 ELSE memoryIndex

\* treeMemories[memoryIndexRef.current] is defined
MemoryAtIndex == memoryIndexRef + 1 \in DOMAIN HandlerMemories

handlePinchSelect_Unfloored ==
    /\ IF MemoryAtIndex
       THEN /\ selectedMemory' = Ref(HandlerMemories[memoryIndexRef + 1])
            /\ targetZoom' = targetZoom - ZoomUnit
       ELSE UNCHANGED <<selectedMemory, targetZoom>>
    /\ UNCHANGED memoryIndexRef
    /\ HandlerStep("select")

\* onPinchSelect: select the memory under the pointer and move the camera closer
handlePinchSelect ==
    /\ IF MemoryAtIndex
       THEN /\ selectedMemory' = Ref(HandlerMemories[memoryIndexRef + 1])
            /\ targetZoom' = Within(5 * ZoomUnit, targetZoom - ZoomUnit, targetZoom - ZoomUnit)
       ELSE UNCHANGED <<selectedMemory, targetZoom>>
    /\ UNCHANGED memoryIndexRef
    /\ HandlerStep("select")

\* onIndexMove(x, y): Math.floor((1 - x) * treeMemories.length), clamped
handleIndexMove(x) ==
    /\ memoryIndexRef' = ClampedIndex(((1000 - x) * Len(HandlerMemories)) \div 1000)
    /\ UNCHANGED <<targetZoom, selectedMemory>>
    /\ HandlerStep("indexMove")

\* onScrollMove(y): y from 0.2 to 0.8 mapped onto the list
handleScrollMove(y) ==
    /\ memoryIndexRef' =
            ClampedIndex((Within(0, 600, y - 200) * Len(HandlerMemories)) \div 600)
    /\ UNCHANGED <<targetZoom, selectedMemory>>
    /\ HandlerStep("scrollMove")

\* onZoom(delta): targetZoom - delta * 0.3, clamped to [4, 15]
handleZoom(delta) ==
    /\ targetZoom' = Within(4 * ZoomUnit, 15 * ZoomUnit, targetZoom - (delta * 3) \div 10)
    /\ UNCHANGED <<memoryIndexRef, selectedMemory>>
    /\ HandlerStep("zoom")

\* onFiveFingerZoom(delta): targetZoom + delta, clamped to [4, 15]
handleFiveFingerZoom(delta) ==
    /\ targetZoom' = Within(4 * ZoomUnit, 15 * ZoomUnit, targetZoom + delta)
    /\ UNCHANGED <<memoryIndexRef, selectedMemory>>
    /\ HandlerStep("fiveFingerZoom")

----
\* Inputs and specifications

\* every hand sample moved by every offset in xs along x and in ys along y
Moved(samples, xs, ys) ==
    {Translate(sample, dx, dy) : sample \in samples, dx \in xs, dy \in ys}

\* a frame with one of the given hands, after one of the given delays
HandFrames(samples, steps) ==
    \E landmarks \in samples, dt \in steps : onResults(HandResults(landmarks), dt)

\* a frame without a hand
NoHandFrames(steps) == \E dt \in steps : onResults(NoHandResults, dt)

\* ---- the hook under enable/disable toggles, with a few poses
LifeSamples == {PinchCurl, Translate(OpenHand(300), 3, 0)}

LifeSteps == {200}

HandFrame == HandFrames(LifeSamples, LifeSteps)

NoHandFrame == NoHandFrames(LifeSteps)

Next ==
    \/ Enable
    \/ Disable
    \/ \E i \in 1..MaxCalls : LoadsDone(i)
    \/ \E i \in 1..MaxCalls : LoadFailed(i)
    \/ \E i \in 1..MaxCalls : CameraStarted(i)
    \/ \E i \in 1..MaxCalls : CameraFailed(i)
    \/ HandFrame
    \/ NoHandFrame

Spec == Init /\ [][Next]_vars

\* tracking switched on once and the pipeline coming up
Startup ==
    \/ Enable
    \/ \E i \in 1..MaxCalls : LoadsDone(i)
    \/ \E i \in 1..MaxCalls : CameraStarted(i)

\* ---- pinch and tap timing: pinch / no pinch at the hold and cooldown bounds
TapSamples == {PinchCurl, Fist}

TapSteps == {50, 100, 149, 601}

TapHandFrame == HandFrames(TapSamples, TapSteps)

TapNoHandFrame == NoHandFrames({100})

NextTap == Startup \/ TapHandFrame \/ TapNoHandFrame

SpecTap == Init /\ [][NextTap]_vars

\* ---- mode arbitration: every pose, one frame rate
ModeSamples ==
    {OpenHand(300), OpenHand(303), OpenHand(304), OpenHand(500),
     PinchOpen, PinchCurl, Point, OpenNarrow, Fist}

ModeSteps == {100}

ModeHandFrame == HandFrames(ModeSamples, ModeSteps)

ModeNoHandFrame == NoHandFrames(ModeSteps)

NextModes == Startup \/ ModeHandFrame \/ ModeNoHandFrame

SpecModes == Init /\ [][NextModes]_vars

\* ---- pointer movement: one pose moved between frames
MoveSamples == Moved({Fist, Point}, {0, 1, 3, 10}, {0, 1, 3})

MoveSteps == {200}

MoveHandFrame == HandFrames(MoveSamples, MoveSteps)

MoveNoHandFrame == NoHandFrames(MoveSteps)

NextMove == Startup \/ MoveHandFrame \/ MoveNoHandFrame

SpecMove == Init /\ [][NextMove]_vars

\* ---- input validation: landmark arrays cut short
InputSamples == {PinchCurl, Translate(Point, 10, 3)}

\* lengths at which the handler's reads first fail: no index fingertip (0, 5),
\* no middle (9), ring (13) or little (17) fingertip, one landmark short (20)
ShortLengths == {0, 5, 9, 13, 17, 20}

InputSteps == {200}

InputHandFrame == HandFrames(InputSamples, InputSteps)

InputNoHandFrame == NoHandFrames(InputSteps)

ShortFrame ==
    \E landmarks \in InputSamples, n \in ShortLengths, dt \in InputSteps :
        onResults(HandResults(Truncated(landmarks, n)), dt)

NextInput == Startup \/ InputHandFrame \/ InputNoHandFrame \/ ShortFrame

SpecInput == Init /\ [][NextInput]_vars

\* ---- the memory list edited from the admin panel
UploadLabels == {"a"}

UploadYears == {"1999"}

\* an edit may clear a field
EditLabels == {"", "b"}

EditYears == {"", "2001"}

Upload == \E label \in UploadLabels, year \in UploadYears : UploadStart("admin", label, year)

Delete == \E id \in 1..MaxUploads : deleteMemory("admin", id)

Update ==
    \E id \in 1..MaxUploads, label \in EditLabels, year \in EditYears :
        updateMemory("admin", id, label, year)

NextMemories == Upload \/ UploadFinish \/ UploadRejected \/ Delete \/ Update

SpecMemories == Init /\ [][NextMemories]_vars

\* ---- the lifecycle alone: toggles and initializations, frames without a hand
LifeNoHandFrame == NoHandFrames(LifeSteps)

NextLife ==
    \/ Enable
    \/ Disable
    \/ \E i \in 1..MaxCalls : LoadsDone(i)
    \/ \E i \in 1..MaxCalls : LoadFailed(i)
    \/ \E i \in 1..MaxCalls : CameraStarted(i)
    \/ \E i \in 1..MaxCalls : CameraFailed(i)
    \/ LifeNoHandFrame

\* a pending promise settles: the script loads or fails to, camera.start()
\* resolves or rejects
LoadsSettle(i) == LoadsDone(i) \/ LoadFailed(i)

CameraSettles(i) == CameraStarted(i) \/ CameraFailed(i)

SpecLife ==
    /\ Init
    /\ [][NextLife]_vars
    /\ \A i \in 1..MaxCalls : WF_vars(LoadsSettle(i)) /\ WF_vars(CameraSettles(i))

\* ---- MemoryTreeUI handling the gesture callbacks, over a stored list
StoredMemory(id) == [id |-> id, label |-> "a", year |-> "1999"]

\* what an earlier visit left in localStorage: nothing, or one or two memories
StoredLists ==
    {Null, Ref(<<StoredMemory(1)>>), Ref(<<StoredMemory(1), StoredMemory(2)>>)}

InitView == \E list \in StoredLists : MountedWith(list)

\* zoom deltas in spread units, multiples of 10 (delta * 0.3 is then exact):
\* half a unit, one unit, and more than the whole range
ZoomDeltas == {-8 * ZoomUnit, -ZoomUnit, ZoomUnit \div 2, 8 * ZoomUnit}

\* pointer positions in 1/1000
PointerPositions == {0, 300, 500, 700, 1000}

Select == handlePinchSelect

IndexMove == \E x \in PointerPositions : handleIndexMove(x)

ScrollMove == \E y \in PointerPositions : handleScrollMove(y)

Zoom == \E delta \in ZoomDeltas : handleZoom(delta)

FiveFingerZoom == \E delta \in ZoomDeltas : handleFiveFingerZoom(delta)

NextView == Select \/ IndexMove \/ ScrollMove \/ Zoom \/ FiveFingerZoom

SpecView == InitView /\ [][NextView]_vars

----
\* Properties

\* the last step was a frame / a frame with a hand
AfterFrame == hist.step = "frame"

AfterHandFrame == hist.step = "frame" /\ hist.frame = "hand"

\* landmarks of the last frame (when it had a hand)
FrameLandmarks == results.multiHandLandmarks[1]

\* a select event fired on the last frame
Selected == events.onPinchSelect # <<>>

\* times of the select events before the last frame
EarlierSelects ==
    IF Selected THEN SubSeq(hist.selects, 1, Len(hist.selects) - 1) ELSE hist.selects

\* time since the previous select event is at least 500 ms (or there was none)
CooldownOver ==
    \/ EarlierSelects = <<>>
    \/ now - EarlierSelects[Len(EarlierSelects)] >= 500

\* how long the pinch released on the last frame had been active
HeldFor == now - hist.becameAt

\* C1: starting from a pinch stability counter of 0, in a run of consecutive
\* hand-present frames that all satisfy the pinch predicate, isPinching is
\* false on the 1st and 2nd frame and true on the 3rd and every later frame.
C1_PinchFromThirdFrame ==
    (AfterHandFrame /\ hist.pinchRun >= 1) =>
        /\ gestureRef.isPinching = (hist.pinchRun >= 3)
        /\ isValidPinchGesture(FrameLandmarks)

C1_FourthPinchFrame ==
    AfterHandFrame /\ hist.pinchRun = 4 /\ gestureRef.isPinching

\* C2: when an active pinch is released and the select cooldown is satisfied,
\* a select event fires iff 150 <= duration <= 600 ms, the duration running
\* from the frame on which isPinching became true to the release frame.
C2_TapWindow ==
    (AfterFrame /\ hist.release /\ CooldownOver) =>
        (Selected <=> (HeldFor >= 150 /\ HeldFor <= 600))

C2_TapAtMinHold ==
    AfterFrame /\ hist.release /\ Selected /\ HeldFor = 150

\* C3: any two select events are at least 500 ms apart; a release that would
\* qualify as a tap but comes less than 500 ms after the previous select
\* event emits no select event and leaves lastSelectTimeRef unchanged.
C3_SelectCooldown ==
    AfterFrame =>
        /\ Selected => CooldownOver
        /\ (hist.release /\ ~CooldownOver) =>
              /\ ~Selected
              /\ lastSelectTimeRef = EarlierSelects[Len(EarlierSelects)]

C3_BlockedTap ==
    /\ AfterFrame /\ hist.release /\ ~Selected
    /\ HeldFor >= 150 /\ HeldFor <= 600
    /\ now - lastSelectTimeRef = 499

\* C4: in every snapshot at most one of isPinching, isFiveFingerMode and
\* isScrollMode is true.
AtMostOneMode(g) ==
    /\ ~(g.isPinching /\ g.isFiveFingerMode)
    /\ ~(g.isPinching /\ g.isScrollMode)
    /\ ~(g.isFiveFingerMode /\ g.isScrollMode)

C4_ModesExclusive == AtMostOneMode(gestureRef) /\ AtMostOneMode(gesture)

C4_FiveFingerOverScroll ==
    /\ AfterHandFrame
    /\ gestureRef.isFiveFingerMode
    /\ fourFingersClumped(FrameLandmarks) /\ indexExtended(FrameLandmarks)

\* C5: after tracking is disabled and re-enabled, every piece of classifier
\* and smoothing state equals its initial value.
C5_ResetOnReenable ==
    hist.step = "enable" =>
        /\ pinchStabilityCountRef = 0
        /\ wasPinchingRef = FALSE
        /\ pinchStartTimeRef = 0
        /\ lastSelectTimeRef = 0
        /\ fiveFingerStabilityRef = 0
        /\ wasFiveFingerRef = FALSE
        /\ lastSpreadRef = 0
        /\ lastHandPosRef = Null
        /\ handVisibleLastFrameRef = FALSE
        /\ smoothedIndexRef = XY(500, 500)

\* C6: a frame whose snapshot equals the last published snapshot within
\* tolerance is not published while less than 100 ms have elapsed since the
\* last publish, and is republished once 100 ms or more have elapsed.
C6_RepublishAfterInterval ==
    [][(hist'.step = "frame" /\ hist'.frame = "hand" /\ lastStateUpdateRef > 0
        /\ gesturesEqual(gesture, gestureRef'))
       => (published' <=> (now' - lastStateUpdateRef >= 100))]_vars

\* C7: every publish that happens less than 100 ms after the previous publish
\* is for a snapshot that is not approximately equal to the snapshot
\* published last.
C7_EarlyPublishOnlyOnChange ==
    [][(hist'.step = "frame" /\ published' /\ lastStateUpdateRef > 0
        /\ now' - lastStateUpdateRef < 100)
       => ~gesturesEqual(gesture, gestureRef')]_vars

\* C8: on a hand-present frame whose preceding frame was also hand-present,
\* each axis delta is the raw difference between the current and the previous
\* raw index-fingertip coordinate when its magnitude exceeds 0.002, else 0.
RawStep(axis) ==
    results'.multiHandLandmarks[1][8][axis] - results.multiHandLandmarks[1][8][axis]

Clamped(d) == IF d > 2 \/ d < -2 THEN d ELSE 0

C8_DeltaDeadZone ==
    [][(hist'.step = "frame" /\ hist'.frame = "hand" /\ hist.frame = "hand")
       => /\ gestureRef'.deltaX = Clamped(RawStep("x"))
          /\ gestureRef'.deltaY = Clamped(RawStep("y"))]_vars

C8_MoveOnOneAxis ==
    /\ AfterHandFrame /\ hist.prevFrame = "hand"
    /\ gestureRef.deltaX = 3 /\ gestureRef.deltaY = 0
    /\ events.onDeltaMove = << <<3, 0>> >>

\* C9: a no-hand frame clears the last raw index position and the
\* hand-visible flag, so the first hand-present frame after no-hand frames
\* (and the first hand-present frame ever) has deltaX = deltaY = 0 and emits
\* no delta-move event.
C9_NoDeltaAcrossGap ==
    /\ (AfterFrame /\ hist.frame = "nohand") =>
          (lastHandPosRef = Null /\ ~handVisibleLastFrameRef)
    /\ (AfterHandFrame /\ hist.prevFrame # "hand") =>
          /\ gestureRef.deltaX = 0 /\ gestureRef.deltaY = 0
          /\ events.onDeltaMove = <<>>

\* the hand reappears 0.003 away from where the published snapshot saw it
C9_HandBackElsewhere ==
    /\ AfterHandFrame /\ hist.prevFrame = "nohand"
    /\ gesture.isScrollMode /\ gesture.indexPosition.x = 500
    /\ gestureRef.indexPosition.x = 503
    /\ gestureRef.deltaX = 0 /\ events.onDeltaMove = <<>>

\* C10: when five-finger mode is active on two consecutive hand-present frames
\* with spreads s1 then s2, the second frame's spreadDelta is (s2 - s1) * 15, a
\* zoom event carrying it fires iff its magnitude exceeds 0.01, and the cached
\* spread becomes s2; on the frame on which five-finger mode becomes active
\* spreadDelta is 0 and no zoom event fires.
C10_SpreadZoom ==
    [][(hist'.step = "frame" /\ hist'.frame = "hand" /\ gestureRef'.isFiveFingerMode)
       => /\ (hist.frame = "hand" /\ gestureRef.isFiveFingerMode) =>
                LET d == (gestureRef'.handSpread - gestureRef.handSpread) * 15
                IN  /\ gestureRef'.spreadDelta = d
                    /\ events'.onFiveFingerZoom =
                          IF d > 50 \/ d < -50 THEN << <<d>> >> ELSE <<>>
                    /\ lastSpreadRef' = gestureRef'.handSpread
          /\ ~gestureRef.isFiveFingerMode =>
                /\ gestureRef'.spreadDelta = 0
                /\ events'.onFiveFingerZoom = <<>>]_vars

\* spreads 0.30 then 0.34: spreadDelta 0.6, zoom event
C10_ZoomBySpread ==
    /\ AfterHandFrame /\ hist.prevFrame = "hand"
    /\ gestureRef.isFiveFingerMode
    /\ gestureRef.handSpread = 1700
    /\ gestureRef.spreadDelta = 3000
    /\ events.onFiveFingerZoom = << <<3000>> >>
    /\ lastSpreadRef = 1700

\* C11: a frame with malformed input (here a landmark array of fewer than 21
\* entries) is handled exactly like a no-hand frame: no fault leaves the frame
\* handler, no event callback fires, and the classifier state changes only as
\* it would for a no-hand frame.
C11_MalformedAsNoHand ==
    [][(hist'.step = "frame" /\ hist'.frame = "short")
       => /\ ~thrown'
          /\ events' = NoEvents
          /\ lastHandPosRef' = Null
          /\ ~handVisibleLastFrameRef'
          /\ UNCHANGED <<gestureRef, gesture, lastStateUpdateRef, pinchStartTimeRef,
                         wasPinchingRef, pinchStabilityCountRef, lastSelectTimeRef,
                         lastSpreadRef, fiveFingerStabilityRef, wasFiveFingerRef,
                         smoothedIndexRef>>]_vars

\* C12: on every frame in which scroll mode is active, a scroll event fires
\* carrying that frame's raw index-fingertip Y, and neither the pointer-move
\* nor the delta-move event fires.
C12_ScrollClaimsIndex ==
    (AfterHandFrame /\ gestureRef.isScrollMode) =>
        /\ events.onScrollMove = << <<FrameLandmarks[8].y>> >>
        /\ events.onIndexMove = <<>>
        /\ events.onDeltaMove = <<>>

\* a scroll frame on which the finger moved and the smoothed Y lags the raw Y
C12_ScrollWhileMoving ==
    /\ AfterHandFrame /\ gestureRef.isScrollMode
    /\ gestureRef.deltaY = 3
    /\ smoothedIndexRef.y # FrameLandmarks[8].y
    /\ events.onScrollMove = << <<FrameLandmarks[8].y>> >>
    /\ events.onDeltaMove = <<>>

\* C13: on every hand-present frame in which scroll mode is not active
\* exactly one pointer-move event fires; on no-hand frames none fires.
C13_OnePointerMove ==
    AfterFrame =>
        /\ (hist.frame = "hand" /\ ~gestureRef.isScrollMode) =>
              Len(events.onIndexMove) = 1
        /\ hist.frame = "nohand" => Len(events.onIndexMove) = 0

\* a hand that did not move still reports its position
C13_PointerMoveAtRest ==
    /\ AfterHandFrame /\ hist.prevFrame = "hand" /\ ~gestureRef.isScrollMode
    /\ gestureRef.deltaX = 0 /\ gestureRef.deltaY = 0
    /\ Len(events.onIndexMove) = 1

\* C14: on every hand-present frame in which scroll mode is not active, a
\* delta-move event fires carrying the dead-zoned (deltaX, deltaY) of that
\* frame, including frames where both deltas are 0.
C14_DeltaMoveEveryFrame ==
    (AfterHandFrame /\ ~gestureRef.isScrollMode) =>
        events.onDeltaMove = << <<gestureRef.deltaX, gestureRef.deltaY>> >>

\* C14 as amended: on every hand-present frame in which scroll mode is not
\* active, a delta-move event carrying the dead-zoned (deltaX, deltaY) fires
\* iff at least one of the two deltas is not 0.
C14_DeltaMoveOnMovement ==
    (AfterHandFrame /\ ~gestureRef.isScrollMode) =>
        events.onDeltaMove =
            IF gestureRef.deltaX # 0 \/ gestureRef.deltaY # 0
            THEN << <<gestureRef.deltaX, gestureRef.deltaY>> >>
            ELSE <<>>

\* movement along y only
C14_MoveAlongY ==
    /\ AfterHandFrame /\ ~gestureRef.isScrollMode
    /\ gestureRef.deltaX = 0 /\ gestureRef.deltaY = 3
    /\ events.onDeltaMove = << <<0, 3>> >>

\* C15: the index position reported externally, as the argument of the
\* pointer-move event and as indexPosition in the snapshot, is the
\* exponentially smoothed estimate, not the frame's raw index-fingertip
\* coordinate.
C15_SmoothedPointer ==
    AfterHandFrame =>
        /\ gestureRef.indexPosition = smoothedIndexRef
        /\ events.onIndexMove # <<>> =>
              events.onIndexMove[1] = <<smoothedIndexRef.x, smoothedIndexRef.y>>

\* C16: for the pinch and the five-finger stability counter: after a
\* hand-present frame on which the counter's predicate fails the counter is 0,
\* after one on which it holds the counter is one more than before, and no
\* other step changes it (five-finger predicate: all five fingers extended
\* and pinch not active this frame).
C16_StabilityCounters ==
    [][IF hist'.step = "frame" /\ hist'.frame = "hand"
       THEN /\ pinchStabilityCountRef' =
                  IF isValidPinchGesture(results'.multiHandLandmarks[1])
                  THEN pinchStabilityCountRef + 1 ELSE 0
            /\ fiveFingerStabilityRef' =
                  IF /\ allFingersExtended(results'.multiHandLandmarks[1])
                     /\ ~gestureRef'.isPinching
                  THEN fiveFingerStabilityRef + 1 ELSE 0
       ELSE UNCHANGED <<pinchStabilityCountRef, fiveFingerStabilityRef>>]_vars

\* a no-hand frame in the middle of a run left both counters alone
C16_CountersAcrossGap ==
    /\ AfterFrame /\ hist.frame = "nohand"
    /\ pinchStabilityCountRef = 2 /\ fiveFingerStabilityRef = 2

\* C17: the reserved onZoom callback is never invoked by the gesture engine.
C17_OnZoomNeverCalled == events.onZoom = <<>>

\* the hand closes in five-finger mode: the five-finger zoom fires, onZoom not
C17_ZoomInWithoutOnZoom ==
    /\ AfterHandFrame /\ gestureRef.isZooming /\ gestureRef.spreadDelta < 0
    /\ events.onFiveFingerZoom = << <<gestureRef.spreadDelta>> >>
    /\ events.onZoom = <<>>

\* C18: after every successful uploadMemory, deleteMemory or updateMemory on a
\* useTreeMemories instance, the list persisted in localStorage, that
\* instance's memories state and the store's treeMemories are the same list.
C18_ThreeCopiesAgree ==
    hist.step \in {"uploaded", "deleted", "updated"} =>
        /\ storage = Ref(memories["admin"])
        /\ treeMemories = memories["admin"]

\* the second memory uploaded: the list of two is in all three places
C18_UploadOverEdit ==
    /\ hist.step = "uploaded"
    /\ Len(memories["admin"]) = 2
    /\ memories["admin"][1].label = "a"
    /\ storage = Ref(memories["admin"])
    /\ treeMemories = memories["admin"]

\* C19: the store is the single source of truth for the memory list: after
\* any sequence of upload, delete and update operations issued from the admin
\* panel, the list used by the gesture handlers of MemoryTreeUI equals the
\* store's treeMemories that the 3D scene renders.
C19_HandlersUseStoreList == HandlerMemories = treeMemories

\* C20: on any hand-present frame where isPinching is true, the five-finger
\* stability counter is reset to 0 and the cached last spread is cleared, even
\* if all five fingers pass the extension test on that frame.
C20_PinchGatesFiveFinger ==
    (AfterHandFrame /\ gestureRef.isPinching) =>
        /\ fiveFingerStabilityRef = 0
        /\ lastSpreadRef = 0
        /\ ~gestureRef.isFiveFingerMode

\* the pinch with open fingers becomes active: the two frames before counted
\* towards five-finger mode
C20_OpenPinchBecomesActive ==
    /\ AfterHandFrame /\ gestureRef.isPinching /\ hist.pinchRun = 3
    /\ allFingersExtended(FrameLandmarks)
    /\ fiveFingerStabilityRef = 0 /\ lastSpreadRef = 0

\* C21: a no-hand frame changes only the delta-tracking state: the pinch and
\* five-finger stability counters, the was-pinching and was-five-finger flags,
\* pinch start time, last select time, cached last spread and the current
\* snapshot are left unchanged, and no event callback fires.
C21_NoHandKeepsClassifier ==
    [][(hist'.step = "frame" /\ hist'.frame = "nohand")
       => /\ UNCHANGED <<pinchStabilityCountRef, fiveFingerStabilityRef,
                         wasPinchingRef, wasFiveFingerRef, pinchStartTimeRef,
                         lastSelectTimeRef, lastSpreadRef, gestureRef, gesture>>
          /\ events' = NoEvents]_vars

\* the hand is lost in the middle of a zoom
C21_HandLostWhileZooming ==
    /\ AfterFrame /\ hist.frame = "nohand"
    /\ gestureRef.isZooming /\ wasFiveFingerRef
    /\ lastSpreadRef > 0 /\ fiveFingerStabilityRef >= 3
    /\ lastHandPosRef = Null /\ ~handVisibleLastFrameRef

\* C22: stability counts carry across hand loss: k < 3 pinch-valid hand
\* frames, then no-hand frames, then pinch-valid hand frames make isPinching
\* true on the (3 - k)-th frame after re-entry; and if the hand is lost while
\* isPinching is true, the first pinch-valid frame after re-entry has
\* isPinching true without the pinch start time being recorded again.
C22_CountsSurviveHandLoss ==
    [][(/\ hist'.step = "frame" /\ hist'.frame = "hand"
        /\ isValidPinchGesture(results'.multiHandLandmarks[1]))
       => /\ gestureRef'.isPinching = (hist'.validSeen >= 3)
          /\ (hist.frame = "nohand" /\ gestureRef.isPinching) =>
                (gestureRef'.isPinching /\ UNCHANGED pinchStartTimeRef)]_vars

\* two pinch frames, a gap, and the pinch is active on the first frame back
C22_ActiveOnReentry ==
    /\ AfterHandFrame /\ hist.prevFrame = "nohand"
    /\ hist.validSeen = 3 /\ gestureRef.isPinching
    /\ pinchStartTimeRef = now

\* C23: scroll mode has no debounce: isScrollMode in a frame's snapshot is
\* determined by that frame's landmarks and that frame's isPinching and
\* isFiveFingerMode alone; it is true on the first frame its predicate holds
\* and false on the first frame it fails.
C23_ScrollWithoutDebounce ==
    AfterHandFrame =>
        (gestureRef.isScrollMode <=>
            /\ fourFingersClumped(FrameLandmarks)
            /\ indexExtended(FrameLandmarks)
            /\ ~gestureRef.isPinching
            /\ ~gestureRef.isFiveFingerMode)

\* scroll mode on the first frame ever processed
C23_ScrollOnFirstFrame ==
    /\ AfterHandFrame /\ hist.prevFrame = "none"
    /\ gestureRef.isScrollMode

\* the zoom flag of the current snapshot agrees with the zoom event of the
\* last step
ZoomFlagMatchesEvent ==
    /\ gestureRef.isZooming <=> events.onFiveFingerZoom # <<>>
    /\ gestureRef.zoomDelta = gestureRef.spreadDelta
    /\ events.onFiveFingerZoom # <<>> =>
          events.onFiveFingerZoom = << <<gestureRef.spreadDelta>> >>

\* C24: in every frame, the snapshot's isZooming flag is true iff the
\* five-finger zoom event fired on that frame, and the snapshot's zoomDelta
\* equals its spreadDelta, which equals the value passed to the zoom event
\* when it fired.
C24_ZoomFlagEveryFrame == AfterFrame => ZoomFlagMatchesEvent

\* C24 as amended: in every hand-present frame, the snapshot's isZooming flag
\* is true iff the five-finger zoom event fired on that frame, and the
\* snapshot's zoomDelta equals its spreadDelta, which equals the value passed
\* to the zoom event when it fired.
C24_ZoomFlagHandFrames == AfterHandFrame => ZoomFlagMatchesEvent

\* a change of spread below the threshold: neither flag nor event
C24_SmallSpreadChange ==
    /\ AfterHandFrame /\ gestureRef.isFiveFingerMode
    /\ gestureRef.spreadDelta = 45 /\ gestureRef.zoomDelta = 45
    /\ ~gestureRef.isZooming /\ events.onFiveFingerZoom = <<>>

\* C25: in every snapshot, rotationMultiplier is 2.0 iff isFiveFingerMode is
\* true and 1.0 otherwise.
C25_RotationMultiplier ==
    /\ gestureRef.rotationMultiplier = IF gestureRef.isFiveFingerMode THEN 2 ELSE 1
    /\ gesture.rotationMultiplier = IF gesture.isFiveFingerMode THEN 2 ELSE 1

\* an open hand on its second frame: not yet five-finger mode, multiplier 1
C25_OpenHandNotYetStable ==
    /\ AfterHandFrame /\ allFingersExtended(FrameLandmarks)
    /\ fiveFingerStabilityRef = 2
    /\ ~gestureRef.isFiveFingerMode /\ gestureRef.rotationMultiplier = 1

\* C26: a select event fires only on a hand-present frame on which the pinch
\* predicate fails and isPinching was true on the most recent preceding
\* hand-present frame; every such release frame, whether or not it selects,
\* resets the pinch counter to 0 and clears the active flag, so each pinch
\* activation yields at most one select event.
C26_SelectOnlyOnRelease ==
    AfterFrame =>
        /\ Selected =>
              /\ hist.frame = "hand" /\ hist.release
              /\ ~isValidPinchGesture(FrameLandmarks)
        /\ (hist.frame = "hand" /\ hist.release) =>
              /\ pinchStabilityCountRef = 0
              /\ ~gestureRef.isPinching
              /\ ~wasPinchingRef

\* a pinch held too long: the release selects nothing and still resets
C26_LongHoldReleased ==
    /\ AfterHandFrame /\ hist.release /\ ~Selected
    /\ HeldFor > 600 /\ CooldownOver
    /\ pinchStabilityCountRef = 0 /\ ~gestureRef.isPinching

\* C27: a five-finger zoom event is emitted (and spreadDelta is nonzero) only
\* on a frame whose immediately preceding frame was a hand-present frame with
\* five-finger mode active; the re-entry frame after a gap computes no spread
\* delta against the spread cached before the gap.
C27_NoZoomAcrossGap ==
    [][(/\ hist'.step = "frame" /\ hist'.frame = "hand"
        /\ (events'.onFiveFingerZoom # <<>> \/ gestureRef'.spreadDelta # 0))
       => (hist.frame = "hand" /\ gestureRef.isFiveFingerMode)]_vars

\* C28: no gesture carries over a disable/enable cycle: on the first
\* hand-present frame processed after tracking is disabled and re-enabled,
\* deltaX = deltaY = 0, no select event fires, isPinching and
\* isFiveFingerMode are false, and no zoom event fires.
C28_FreshAfterReenable ==
    [][(hist.fresh /\ hist'.step = "frame" /\ hist'.frame = "hand")
       => /\ gestureRef'.deltaX = 0 /\ gestureRef'.deltaY = 0
          /\ events'.onPinchSelect = <<>>
          /\ ~gestureRef'.isPinching
          /\ ~gestureRef'.isFiveFingerMode
          /\ events'.onFiveFingerZoom = <<>>]_vars

\* initializeHandTracking calls between their guards and their completion
InFlight == {i \in 1..MaxCalls : calls[i].pc \in {"loading", "starting"}}

\* acquisition pipelines that were created and not torn down by cleanup
Pipelines ==
    {i \in 1..MaxCalls : calls[i].pc \in {"starting", "done"} /\ ~calls[i].stopped}

\* C29: under every interleaving of enable/disable toggles with the
\* asynchronous steps of initializeHandTracking, at most one initialization
\* is in flight and at most one acquisition pipeline exists at any time.
C29_OneInitOnePipeline ==
    /\ Cardinality(InFlight) <= 1
    /\ Cardinality(Pipelines) <= 1

\* C30: if tracking is disabled while initializeHandTracking is awaiting the
\* MediaPipe loads, the initialization aborts after the loads: it creates no
\* video or canvas element, starts no camera, and no frame is processed or
\* callback fired while tracking is disabled.
C30_NoPipelineWhileDisabled ==
    ~enabled =>
        /\ videoRef = 0 /\ canvasRef = 0 /\ handsRef = 0 /\ cameraRef = 0
        /\ hist.step # "frame"

\* the acquisition pipeline is up: initialized, the Camera of cameraRef is
\* started and not stopped, a Hands instance is installed, loading is over
Running ==
    /\ isInitializedRef
    /\ cameraRef # 0 /\ cameraRef \in cameras
    /\ handsRef # 0
    /\ ~isLoading

\* a failure is reported to the consumer
Reported == error # Null /\ ~isLoading

\* C31: whenever tracking is switched on and stays on, whatever toggles and
\* initializations in flight came before, the hook eventually is running
\* (initialized, live camera, Hands instance, not loading) or reports an error
\* (error set, not loading); and it never stays enabled and initialized while
\* the camera it holds is missing or not started.
C31_EnabledSettles ==
    /\ [](hist.step = "enable" => <>(~enabled \/ Running \/ Reported))
    /\ ~<>[](enabled /\ isInitializedRef /\ cameraRef \notin cameras)

\* C32: when a step of initialization throws (a script fails to load,
\* camera.start() rejects), the hook ends with error set to the failure
\* message, isLoading false, isInitializing false and isInitialized false; and
\* the next enable, after a disable, starts an initialization again.
C32_FailureLeavesRetryable ==
    [][/\ hist'.step = "loadFailed" => error' = Ref("Failed to load MediaPipe")
       /\ hist'.step = "startFailed" => error' = Ref("Failed to start camera")
       /\ hist'.step \in {"loadFailed", "startFailed"} =>
            ~isLoading' /\ ~isInitializingRef' /\ ~isInitializedRef'
       /\ hist'.step = "enable" =>
            \E i \in 1..MaxCalls :
                /\ calls[i].pc \in {"idle", "done", "failed"}
                /\ calls'[i].pc \in {"loading", "starting"}]_vars

\* C33: in every state between frames each debounced mode's previous-active
\* flag agrees with its counter: wasPinching iff the pinch counter is at least
\* 3, wasFiveFinger iff the five-finger counter is at least 3, and the cached
\* spread is 0 whenever the five-finger counter is below 3.
C33_FlagsAgreeWithCounters ==
    /\ wasPinchingRef <=> pinchStabilityCountRef >= PINCH_STABILITY_FRAMES
    /\ wasFiveFingerRef <=> fiveFingerStabilityRef >= FIVE_FINGER_STABILITY_FRAMES
    /\ fiveFingerStabilityRef < FIVE_FINGER_STABILITY_FRAMES => lastSpreadRef = 0

\* an open hand closing to a pinch: five-finger mode is still active with a
\* cached spread while the pinch counter, at 2, has not made the pinch active
C33_PinchCountingInFiveFingerMode ==
    /\ AfterHandFrame
    /\ pinchStabilityCountRef = 2 /\ ~wasPinchingRef
    /\ fiveFingerStabilityRef >= FIVE_FINGER_STABILITY_FRAMES /\ wasFiveFingerRef
    /\ lastSpreadRef > 0

C36_FailedUploadChangesNothing ==
    [][hist'.step = "uploadFailed" =>
            /\ storage' = storage
            /\ treeMemories' = treeMemories
            /\ memories' = memories]_vars

\* the second upload failed at setItem (its id was handed out) after the first
\* was stored: the three copies still hold the first memory alone
C36_StorageFullOnSecondUpload ==
    /\ hist.step = "uploadFailed"
    /\ nextId = 2
    /\ Ids(memories["admin"]) = {1}
    /\ storage = Ref(memories["admin"]) /\ treeMemories = memories["admin"]

\* the list in localStorage
Persisted == IF storage = Null THEN <<>> ELSE storage[1]

\* ids are never handed out twice, so a memory that is not in `before` although
\* its id was handed out has been deleted (or was never stored): it must stay
\* out; and a memory leaves a list only by the delete that names it
NothingLost(before, after) ==
    /\ \A id \in 1..nextId : id \notin Ids(before) => id \notin Ids(after)
    /\ \A id \in Ids(before) :
            id \notin Ids(after) => hist'.step = "deleted" /\ hist'.id = id

\* C37: no upload is lost under interleaving: when uploadMemory, deleteMemory
\* and updateMemory calls overlap (an upload awaits the image compression
\* before it writes), every upload that returned true is in the persisted and
\* in the in-memory list afterwards unless it was explicitly deleted, and every
\* delete that returned true stays deleted.
C37_NoLostUpdate ==
    [][/\ NothingLost(Persisted, Persisted')
       /\ NothingLost(memories["admin"], memories'["admin"])]_vars

====
